---- MODULE Spec2Model ----
(***************************************************************************)
(* A model of the SHT45 live plotter (src/SHT_plotter_live.py): the line   *)
(* parser with its last-good caches, the bounded stream buffers, the       *)
(* primary and overlay tailer threads, the static CSV import and the       *)
(* consumer (the Tk thread: the buttons and update_plot).                  *)
(*                                                                         *)
(* Units: times are integer milliseconds, temperatures integer degrees C,  *)
(* humidities integer percent.  A watched file is a sequence of tokens: a  *)
(* positive token is the body of one log line (an index into LineTable),   *)
(* the token NL is a line terminator, a negative token is another byte     *)
(* that is no part of a body.  Sizes and offsets count tokens.             *)
(* An optional value (Python's None) is the empty tuple, a present value v *)
(* is <<v>>.                                                               *)
(***************************************************************************)
EXTENDS Integers, Sequences, FiniteSets, TLC

-----------------------------------------------------------------------------
(* Bounds of the model *)

\* Line bodies a watched file holds at most (between two truncations).
MaxFile == 2
\* Capacity of every deque of a StreamBuffers (MAX_POINTS in the source is
\* 250000; the model runs the same code with a small capacity).
MAX_POINTS == 2
\* Overlay cap (MAX_OVERLAYS in the source is 10).
MAX_OVERLAYS == 2
\* OverlayItem objects that can be alive at a time (listed or still tailed).
MaxOvObjs == 3
\* OverlayItem objects alive at a time in behaviours of the whole program
\* (Spec); the overlay management on its own (SpecOverlays) uses them all.
MaxOvMain == 1
\* Thread objects read_loop_main can run in at a time.
MaxThreads == 2
\* Operations of the user and of the log writers in one behaviour: the
\* buttons (start, stop, reset, add, remove and clear overlay), a line
\* written to a watched file, a truncation.  The steps of the threads and
\* of update_plot are not counted.
MaxOps == 4

-----------------------------------------------------------------------------
(* Program constants *)

TEMP_MIN_C == -40
TEMP_MAX_C == 125
HUM_MIN_PCT == 0
HUM_MAX_PCT == 100
MAX_TEMP_STEP_C == 5
MAX_HUM_STEP_PCT == 20
\* STATIC_DT_SEC = 0.25 s, in milliseconds
STATIC_DT_SEC == 250
\* EXPORT_MAX_DT_SEC = 0.30 s, in milliseconds
EXPORT_MAX_DT_SEC == 300
\* Y_PAD_FRAC = 0.08, in percent
Y_PAD_FRAC == 8
\* MIN_YSPAN = 0.3, in ten-thousandths of a unit of the y axis
MIN_YSPAN == 3000

None == << >>
Some(v) == <<v>>

\* Codes of the bytes and characters of a watched file that are not part of a
\* line body: "\n", "\r", the lead byte and the continuation byte of a
\* two-byte UTF-8 character, and the character the two decode to.
NL == 0
CR == -1
LEAD == -2
CONT == -3
EACUTE == -4

Abs(x) == IF x < 0 THEN 0 - x ELSE x

-----------------------------------------------------------------------------
(* Log lines *)

\* A line body, already cut into the fields the two accepted formats hold:
\* fmt "free" is  <token> <MM>:<SS>.<mmm> , <label> , <temp> , <rh>  (LINE_RE),
\* fmt "csv4" is  <t>,<label>,<temp>,<rh>, fmt "header" is the column header,
\* fmt "junk" is any other text.
LogLine(fmt, t, label, temp, hum) ==
    [fmt |-> fmt, t |-> t, label |-> label, temp |-> temp, hum |-> hum]

LineTable == <<
    LogLine("free", 100, "Sensor1", 25, 50),
    LogLine("free", 350, "Sensor1", 33, 51),
    LogLine("csv4", 600, "Sensor 2", 26, 50),
    LogLine("free", 850, "Sensor1", 130, 50),
    LogLine("header", 0, "Sensor", 0, 0),
    LogLine("junk", 0, "", 0, 0) >>

\* The bodies the writers of the primary and of the overlay files emit.
PrimaryLines == {1, 2, 4, 6}
OverlayLines == {1, 2, 3}

\* sensor_txt.lower().startswith("sensor")
StartsWithSensor(label) == label \in {"Sensor", "Sensor1", "Sensor2", "Sensor 1", "Sensor 2"}
\* sensor_txt.replace(" ", "").endswith("1")
EndsWith1(label) == label \in {"Sensor1", "Sensor 1"}
\* (?P<sensor>Sensor\s*[12]) of LINE_RE
MatchesLineRe(ln) == ln.fmt = "free" /\ ln.label \in {"Sensor1", "Sensor2", "Sensor 1", "Sensor 2"}

valid_ranges(temp, hum) ==
    /\ TEMP_MIN_C <= temp /\ temp <= TEMP_MAX_C
    /\ HUM_MIN_PCT <= hum /\ hum <= HUM_MAX_PCT

\* lt, lh: the channel's last-good temperature and humidity (optional).
valid_step(lt, lh, temp, hum) ==
    IF lt = None \/ lh = None THEN TRUE
    ELSE IF Abs(temp - lt[1]) > MAX_TEMP_STEP_C THEN FALSE
    ELSE IF Abs(hum - lh[1]) > MAX_HUM_STEP_PCT THEN FALSE
    ELSE TRUE

Sample(t, sid, temp, hum) == [t |-> t, sid |-> sid, temp |-> temp, hum |-> hum]

\* The fields the parser extracts from a stripped line s (a sequence of body
\* tokens), before validation: None when no format matches.
LineFields(s) ==
    IF s = << >> THEN None
    ELSE IF Len(s) > 1 THEN None
    ELSE LET ln == LineTable[s[1]] IN
         IF ln.fmt = "header" THEN None
         ELSE IF ln.fmt = "csv4" /\ StartsWithSensor(ln.label)
              THEN Some(Sample(ln.t, IF EndsWith1(ln.label) THEN 1 ELSE 2, ln.temp, ln.hum))
         ELSE IF MatchesLineRe(ln)
              THEN Some(Sample(ln.t, IF EndsWith1(ln.label) THEN 1 ELSE 2, ln.temp, ln.hum))
         ELSE None

\* A parser without the step check (what parse_log_line_abs_seconds must not
\* be).
ParseNoStep(s, lgt, lgh) ==
    LET f == LineFields(s) IN
    IF f = None THEN None
    ELSE IF ~valid_ranges(f[1].temp, f[1].hum) THEN None
    ELSE f

\* parse_log_line_abs_seconds: the sample, or None; lgt and lgh are the
\* caches _last_good_temp and _last_good_hum (functions of the channel).
parse_log_line_abs_seconds(s, lgt, lgh) ==
    LET f == LineFields(s) IN
    IF f = None THEN None
    ELSE IF ~valid_ranges(f[1].temp, f[1].hum) THEN None
    ELSE IF ~valid_step(lgt[f[1].sid], lgh[f[1].sid], f[1].temp, f[1].hum) THEN None
    ELSE f

\* The caches after the parser returned `parsed`.
CacheAfter(parsed, lg, v) ==
    IF parsed = None THEN lg ELSE [lg EXCEPT ![parsed[1].sid] = Some(v)]

NoCache == [sid \in 1..2 |-> None]

-----------------------------------------------------------------------------
(* StreamBuffers *)

\* A deque that ignores its maxlen (what DequeAppend must not be).
AppendNoEvict(d, x, maxlen) == Append(d, x)

\* deque(maxlen).append: the oldest entry leaves a full deque.
DequeAppend(d, x, maxlen) ==
    IF Len(d) >= maxlen THEN Append(Tail(d), x) ELSE Append(d, x)

EmptyBuffers ==
    [t1 |-> << >>, T1 |-> << >>, H1 |-> << >>, t2 |-> << >>, T2 |-> << >>, H2 |-> << >>]

clear(b) == EmptyBuffers

push(b, t, sid, temp, hum) ==
    IF sid = 1
    THEN [b EXCEPT !.t1 = DequeAppend(b.t1, t, MAX_POINTS),
                   !.T1 = DequeAppend(b.T1, temp, MAX_POINTS),
                   !.H1 = DequeAppend(b.H1, hum, MAX_POINTS)]
    ELSE [b EXCEPT !.t2 = DequeAppend(b.t2, t, MAX_POINTS),
                   !.T2 = DequeAppend(b.T2, temp, MAX_POINTS),
                   !.H2 = DequeAppend(b.H2, hum, MAX_POINTS)]

-----------------------------------------------------------------------------
(* Watched files *)

EmptyFile == << >>
\* The line bodies, complete or not, in a token sequence.
Bodies(f) == Cardinality({i \in 1..Len(f) : f[i] # NL})
EndsOpen(f) == Len(f) > 0 /\ f[Len(f)] # NL

\* f.seek(pos); f.read() on the bytes: the tokens from pos to the end of the file.
ReadFrom(f, pos) == IF pos >= Len(f) THEN << >> ELSE SubSeq(f, pos + 1, Len(f))
\* f.tell() after the read: the end of the file, or pos when pos is past it.
TellAfter(f, pos) == IF pos >= Len(f) THEN pos ELSE Len(f)

\* The utf-8 decoder with errors="ignore", at the end of the file: a lead
\* byte with its continuation byte is one character, a lead byte without it
\* and a continuation byte without lead are dropped.
RECURSIVE Decode(_)
Decode(b) ==
    IF b = << >> THEN << >>
    ELSE IF Head(b) = LEAD
         THEN IF Len(b) >= 2 /\ b[2] = CONT
              THEN <<EACUTE>> \o Decode(SubSeq(b, 3, Len(b)))
              ELSE Decode(Tail(b))
    ELSE IF Head(b) = CONT THEN Decode(Tail(b))
    ELSE <<Head(b)>> \o Decode(Tail(b))

\* Text mode with newline=None: "\r\n" and a lone "\r" are read as "\n".
RECURSIVE UniversalNewlines(_)
UniversalNewlines(c) ==
    IF c = << >> THEN << >>
    ELSE IF Head(c) = CR
         THEN IF Len(c) >= 2 /\ c[2] = NL
              THEN <<NL>> \o UniversalNewlines(SubSeq(c, 3, Len(c)))
              ELSE <<NL>> \o UniversalNewlines(Tail(c))
    ELSE <<Head(c)>> \o UniversalNewlines(Tail(c))

\* open(path, "r", encoding="utf-8", errors="ignore"); seek(pos); read()
ReadText(f, pos) == UniversalNewlines(Decode(ReadFrom(f, pos)))

IsTerminator(x) == x = NL \/ x = CR

\* The length of the first piece splitlines cuts off c ("\r\n" is one
\* terminator), given that c holds a terminator.
FirstPiece(c) ==
    LET i == CHOOSE k \in 1..Len(c) : IsTerminator(c[k]) /\ \A j \in 1..(k-1) : ~IsTerminator(c[j])
    IN IF c[i] = CR /\ i < Len(c) /\ c[i + 1] = NL THEN i + 1 ELSE i

\* chunk.splitlines(keepends=True): the pieces, each ending with its
\* terminator except possibly the last.
RECURSIVE SplitLines(_)
SplitLines(c) ==
    IF c = << >> THEN << >>
    ELSE IF \E i \in 1..Len(c) : IsTerminator(c[i])
         THEN <<SubSeq(c, 1, FirstPiece(c))>> \o SplitLines(SubSeq(c, FirstPiece(c) + 1, Len(c)))
         ELSE <<c>>

\* ln.strip(): the line without its terminator.
Strip(ln) == SelectSeq(ln, LAMBDA x : ~IsTerminator(x))

\* lines[-1].endswith("\n") or lines[-1].endswith("\r")
EndsWithTerminator(ln) == Len(ln) > 0 /\ IsTerminator(ln[Len(ln)])

\* The complete lines of carry + chunk, and the new carry.
CompleteLines(c) ==
    LET ls == SplitLines(c) IN
    IF ls # << >> /\ ~EndsWithTerminator(ls[Len(ls)]) THEN SubSeq(ls, 1, Len(ls) - 1) ELSE ls

NewCarry(c) ==
    LET ls == SplitLines(c) IN
    IF ls # << >> /\ ~EndsWithTerminator(ls[Len(ls)]) THEN ls[Len(ls)] ELSE << >>

\* One read of a tailer on file f with read offset pos and carry cr: the new
\* offset, the new carry and the stripped lines handed to the parser.
ReadStep(f, pos, cr) ==
    LET chunk == ReadText(f, pos)
        c == cr \o chunk
        ls == IF chunk = << >> THEN << >> ELSE CompleteLines(c)
    IN [file_pos |-> TellAfter(f, pos),
        carry |-> IF chunk = << >> THEN cr ELSE NewCarry(c),
        lines |-> [i \in 1..Len(ls) |-> Strip(ls[i])]]

-----------------------------------------------------------------------------
(* State *)

VARIABLES
    \* DataMonitor
    file_path,          \* optional path of the main log
    running,            \* the primary's running flag
    main,               \* the primary StreamBuffers
    file_pos,           \* the primary's read offset
    queue,              \* hand-off queue of parsed samples
    event_q,            \* lifecycle events for the consumer
    carry,              \* the primary's partial-line remainder (_carry)
    last_good_temp,     \* _last_good_temp, one entry per channel
    last_good_hum,      \* _last_good_hum
    main_t_start_abs,   \* the primary's time-base anchor
    overlays,           \* the list of OverlayItem objects (their ids)
    \* OverlayItem objects and the _tail thread of each
    ov,
    \* read_loop_main threads
    thr,
    \* LivePlotterApp
    overlay_load_q,     \* results of the static CSV workers
    loaders,            \* _load_static_csv_worker threads not yet run
    \* environment: the watched files, index 0 the main log, o the file of overlay o
    files,
    ops,                \* operations of the user and the writers so far
    \* history variables of the claims
    rdclock,            \* lines read from the main log so far
    queue_rd,           \* the read number of each entry of queue
    appended_rd,        \* the read number of the last sample pushed to main
    in_order,           \* FALSE once a sample was pushed to main out of read order
    prev_acc,           \* per source and channel, the last sample accepted from it
    iso_temp, iso_hum,  \* per source, the caches of a parser fed that source alone
    dialog,             \* the message box the last button handler showed ("none": none)
    stopping,           \* the read_loop_main threads that were alive at a stop request
    main_abs,           \* main, with the absolute time of every sample it holds
    \* a StreamBuffers object on its own
    buf,                \* the object
    pushed,             \* per channel deque, what was appended since the last clear
    \* a tailer's reads of one appended byte stream
    stream,             \* the bytes the writer appends in all
    written,            \* how many of them are in the file
    rd_pos,             \* the read offset
    rd_carry,           \* the carry
    handed,             \* the stripped lines handed to the parser so far
    \* one call of a helper function of the plot and the export
    call,               \* the function and its arguments
    ret,                \* its return value, once it has returned
    \* an export of the primary's buffers and its import as a static overlay
    exp_queue,          \* the accepted samples on the hand-off queue
    exp_main,           \* the primary StreamBuffers
    exp_anchor,         \* main_t_start_abs
    exp_file,           \* optional: the rows of the exported file
    exp_load_q,         \* overlay_load_q
    exp_ov,             \* optional: the overlay's StreamBuffers after the import
    \* a live overlay's buffers, its _tail thread pushing and the Tk thread copying
    sn_buf,             \* the overlay's StreamBuffers
    sn_tail,            \* the _tail thread: the samples pushed and its place in push
    sn_copy,            \* the Tk thread: its place in the copy and the lists copied
    \* the serial terminal (src/arduino_terminal.py)
    ser,                \* optional: the open serial port (its number)
    stop_event,         \* the stop event is set
    logging,            \* the logging flag
    log_file,           \* optional: the log file handle (its number)
    open_files,         \* the file handles that are open
    start_log_btn,      \* the button "Start log" is enabled
    stop_log_btn,       \* the button "Stop log" is enabled
    readers,            \* the _reader_loop threads
    term_ops            \* operations of the terminal's user so far

monitor_vars == <<file_path, running, main, file_pos, queue, event_q, carry, last_good_temp,
                  last_good_hum, main_t_start_abs>>
overlay_vars == <<overlays, ov, overlay_load_q, loaders>>
order_vars == <<rdclock, queue_rd, appended_rd, in_order>>
cache_vars == <<prev_acc, iso_temp, iso_hum>>
sys_vars == <<monitor_vars, overlay_vars, thr, files, ops, order_vars, cache_vars,
              dialog, stopping, main_abs>>
buf_vars == <<buf, pushed>>
rd_vars == <<stream, written, rd_pos, rd_carry, handed>>
fn_vars == <<call, ret>>
exp_vars == <<exp_queue, exp_main, exp_anchor, exp_file, exp_load_q, exp_ov>>
sn_vars == <<sn_buf, sn_tail, sn_copy>>
term_vars == <<ser, stop_event, logging, log_file, open_files, start_log_btn, stop_log_btn,
               readers, term_ops>>
lab_vars == <<fn_vars, exp_vars, sn_vars, term_vars>>
vars == <<sys_vars, buf_vars, rd_vars, lab_vars>>

OvIds == 1..MaxOvObjs
Threads == 1..MaxThreads
Sources == 0..MaxOvObjs
MainPath == Some("terminal.log")

\* OverlayItem.__init__, and the locals of its _tail thread (pc "none": no
\* thread); abs_buffers is history: buffers, with the absolute time of every
\* sample it holds.
OverlayItem ==
    [buffers |-> EmptyBuffers, path |-> None, live |-> FALSE, running |-> FALSE,
     file_pos |-> 0, carry |-> << >>, t_start_abs |-> None,
     pc |-> "none", last_size |-> 0, lines |-> << >>,
     abs_buffers |-> EmptyBuffers]

\* The locals of a read_loop_main thread (pc "none": no thread).
NoThread == [pc |-> "none", last_size |-> 0, lines |-> << >>]

\* DataMonitor.__init__ and LivePlotterApp.__init__
InitApp ==
    /\ file_path = None
    /\ running = FALSE
    /\ main = EmptyBuffers
    /\ file_pos = 0
    /\ queue = << >>
    /\ event_q = << >>
    /\ carry = << >>
    /\ last_good_temp = NoCache
    /\ last_good_hum = NoCache
    /\ main_t_start_abs = None
    /\ overlays = << >>
    /\ ov = [o \in OvIds |-> OverlayItem]
    /\ thr = [th \in Threads |-> NoThread]
    /\ overlay_load_q = << >>
    /\ loaders = {}
    /\ files = [s \in Sources |-> EmptyFile]
    /\ ops = 0
    /\ rdclock = 0
    /\ queue_rd = << >>
    /\ appended_rd = 0
    /\ in_order = TRUE
    /\ prev_acc = [s \in Sources |-> NoCache]
    /\ iso_temp = [s \in Sources |-> NoCache]
    /\ iso_hum = [s \in Sources |-> NoCache]
    /\ dialog = "none"
    /\ stopping = {}
    /\ main_abs = EmptyBuffers

\* StreamBuffers.__init__
InitBuf ==
    /\ buf = EmptyBuffers
    /\ pushed = EmptyBuffers

\* No stream is appended.
InitRd ==
    /\ stream = << >>
    /\ written = 0
    /\ rd_pos = 0
    /\ rd_carry = << >>
    /\ handed = << >>

\* No helper is called.
InitFn ==
    /\ call = [fn |-> "none", xs |-> << >>, ys |-> << >>, a |-> 0, b |-> 0]
    /\ ret = None

\* Nothing to export.
InitExp ==
    /\ exp_queue = << >>
    /\ exp_main = EmptyBuffers
    /\ exp_anchor = None
    /\ exp_file = None
    /\ exp_load_q = << >>
    /\ exp_ov = None

\* An empty live overlay: the _tail thread before its first push, the Tk
\* thread before a copy.
InitSn ==
    /\ sn_buf = EmptyBuffers
    /\ sn_tail = [n |-> 0, pc |-> "t1"]
    /\ sn_copy = [pc |-> "t1", t1 |-> << >>, T1 |-> << >>, H1 |-> << >>]

\* _reader_loop threads that can exist at a time.
MaxReaders == 2
Readers == 1..MaxReaders

\* The locals of a _reader_loop thread (pc "none": no thread); port is the
\* serial port its readline was called on.
NoReader == [pc |-> "none", port |-> 0]

\* SerialTerminalGUI.__init__
InitTerm ==
    /\ ser = None
    /\ stop_event = FALSE
    /\ logging = FALSE
    /\ log_file = None
    /\ open_files = {}
    /\ start_log_btn = FALSE
    /\ stop_log_btn = FALSE
    /\ readers = [r \in Readers |-> NoReader]
    /\ term_ops = 0

Init == InitApp /\ InitBuf /\ InitRd /\ InitFn /\ InitExp /\ InitSn /\ InitTerm

\* An operation of the user or of a log writer.
Op == ops < MaxOps /\ ops' = ops + 1

-----------------------------------------------------------------------------
(* The primary source *)

\* LivePlotterApp.use_default / load_file: a main log is chosen.
LoadFile ==
    /\ file_path = None
    /\ file_path' = MainPath
    /\ dialog' = "none"
    /\ UNCHANGED <<running, main, file_pos, queue, event_q, carry, last_good_temp,
                   last_good_hum, main_t_start_abs>>
    /\ UNCHANGED <<overlay_vars, thr, files, ops, order_vars, cache_vars, stopping, main_abs>>
    /\ UNCHANGED <<buf_vars, rd_vars, lab_vars>>

\* DataMonitor.reset_main, as a relation on the variables it assigns.
reset_main ==
    /\ main' = clear(main)
    /\ queue' = << >>
    /\ carry' = << >>
    /\ last_good_temp' = NoCache
    /\ last_good_hum' = NoCache
    /\ file_pos' = 0
    /\ main_t_start_abs' = None
    /\ queue_rd' = << >>
    /\ appended_rd' = 0
    /\ prev_acc' = [prev_acc EXCEPT ![0] = NoCache]
    /\ iso_temp' = [iso_temp EXCEPT ![0] = NoCache]
    /\ iso_hum' = [iso_hum EXCEPT ![0] = NoCache]
    /\ main_abs' = EmptyBuffers

\* DataMonitor.start: threading.Thread(target=self.read_loop_main).start()
\* (the thread object with the least free number is taken).
SpawnMain(th) ==
    /\ thr[th].pc = "none"
    /\ \A u \in Threads : u < th => thr[u].pc # "none"
    /\ thr' = [thr EXCEPT ![th] = [NoThread EXCEPT !.pc = "poll"]]

\* A start that takes any path for a chosen file (what NoFileSelected must
\* not be).
AnyPathSelected == FALSE

\* if not self.monitor.file_path
NoFileSelected == file_path = None

\* LivePlotterApp.start -> DataMonitor.start: a warning and nothing else when
\* no main log is chosen
Start ==
    /\ Op
    /\ IF NoFileSelected
       THEN /\ dialog' = "No file"
            /\ UNCHANGED <<monitor_vars, thr, order_vars, cache_vars, main_abs>>
       ELSE /\ dialog' = "none"
            /\ running' = TRUE
            /\ reset_main
            /\ \E th \in Threads : SpawnMain(th)
            /\ UNCHANGED <<file_path, event_q, rdclock, in_order>>
    /\ UNCHANGED <<overlay_vars, files, stopping>>
    /\ UNCHANGED <<buf_vars, rd_vars, lab_vars>>

\* A stop that resets as well (what Stop must not be).
StopAndReset ==
    /\ Op
    /\ running' = FALSE
    /\ reset_main
    /\ dialog' = "none"
    /\ stopping' = stopping \cup {th \in Threads : thr[th].pc # "none"}
    /\ UNCHANGED <<file_path, event_q, overlay_vars, thr, files, rdclock, in_order>>
    /\ UNCHANGED <<buf_vars, rd_vars, lab_vars>>

\* LivePlotterApp.stop -> DataMonitor.stop
Stop ==
    /\ Op
    /\ running' = FALSE
    /\ dialog' = "none"
    /\ stopping' = stopping \cup {th \in Threads : thr[th].pc # "none"}
    /\ UNCHANGED <<file_path, main, file_pos, queue, event_q, carry, last_good_temp,
                   last_good_hum, main_t_start_abs>>
    /\ UNCHANGED <<overlay_vars, thr, files, order_vars, cache_vars, main_abs>>
    /\ UNCHANGED <<buf_vars, rd_vars, lab_vars>>

\* LivePlotterApp.reset_main (the Reset button)
ResetMain ==
    /\ Op
    /\ reset_main
    /\ dialog' = "none"
    /\ UNCHANGED <<file_path, running, event_q, overlay_vars, thr, files, rdclock, in_order,
                   stopping>>
    /\ UNCHANGED <<buf_vars, rd_vars, lab_vars>>

\* truncated = (size < self.file_pos) or (size < last_size)
Truncated(size, pos, last_size) == size < pos \/ size < last_size

\* The head of read_loop_main's loop would see a truncation.
MainTruncated(th) ==
    /\ running /\ file_path # None
    /\ Truncated(Len(files[0]), file_pos, thr[th].last_size)

\* read_loop_main, the head of one iteration: the loop condition, getsize and
\* the truncation check.
MainPoll(th) ==
    /\ thr[th].pc = "poll"
    /\ IF ~(running /\ file_path # None)
       THEN /\ thr' = [thr EXCEPT ![th] = NoThread]
            /\ stopping' = stopping \ {th}
            /\ UNCHANGED <<file_pos, carry, last_good_temp, last_good_hum,
                           main_t_start_abs, event_q, cache_vars>>
       ELSE /\ IF MainTruncated(th)
               THEN /\ file_pos' = 0
                    /\ carry' = << >>
                    /\ last_good_temp' = NoCache
                    /\ last_good_hum' = NoCache
                    /\ main_t_start_abs' = None
                    /\ event_q' = Append(event_q, "RESET")
                    /\ prev_acc' = [prev_acc EXCEPT ![0] = NoCache]
                    /\ iso_temp' = [iso_temp EXCEPT ![0] = NoCache]
                    /\ iso_hum' = [iso_hum EXCEPT ![0] = NoCache]
               ELSE UNCHANGED <<file_pos, carry, last_good_temp, last_good_hum,
                                main_t_start_abs, event_q, cache_vars>>
            /\ thr' = [thr EXCEPT ![th].last_size = Len(files[0]), ![th].pc = "read"]
            /\ UNCHANGED stopping
    /\ UNCHANGED <<file_path, running, main, queue, overlay_vars, files, ops, order_vars,
                   dialog, main_abs>>
    /\ UNCHANGED <<buf_vars, rd_vars, lab_vars>>

\* open, seek(file_pos), read, file_pos = tell; then chunk = _carry + chunk,
\* splitlines, and the last piece without terminator becomes the carry; each
\* line is stamped with its read number
MainRead(th) ==
    /\ thr[th].pc = "read"
    /\ LET r == ReadStep(files[0], file_pos, carry) IN
          /\ file_pos' = r.file_pos
          /\ rdclock' = rdclock + Len(r.lines)
          /\ carry' = r.carry
          /\ thr' = [thr EXCEPT ![th].lines = [i \in 1..Len(r.lines) |->
                                                 [s |-> r.lines[i], rd |-> rdclock + i]],
                                ![th].pc = IF r.lines = << >> THEN "poll" ELSE "parse"]
    /\ UNCHANGED <<file_path, running, main, queue, event_q, last_good_temp,
                   last_good_hum, main_t_start_abs>>
    /\ UNCHANGED <<overlay_vars, files, ops, queue_rd, appended_rd, in_order, cache_vars>>
    /\ UNCHANGED <<dialog, stopping, main_abs>>
    /\ UNCHANGED <<buf_vars, rd_vars, lab_vars>>

\* The exceptions the file system raises on a tailer: the file is absent at
\* the moment of the call (it is being replaced), or it cannot be opened or
\* read.
IOErrors == {"FileNotFoundError", "PermissionError"}

\* ("ERROR", str(e))
ErrorEvent(e) == IF e = "FileNotFoundError" THEN "ERROR FileNotFoundError"
                 ELSE "ERROR PermissionError"

\* getsize raises FileNotFoundError: sleep and continue, nothing is assigned
MainPollAbsent(th) ==
    /\ thr[th].pc = "poll"
    /\ running /\ file_path # None
    /\ UNCHANGED vars

\* open, seek or read raises e: the handler at the end of the iteration puts
\* an ERROR event, and the loop goes on
MainReadError(th, e) ==
    /\ Op
    /\ thr[th].pc = "read"
    /\ event_q' = Append(event_q, ErrorEvent(e))
    /\ thr' = [thr EXCEPT ![th].pc = "poll"]
    /\ UNCHANGED <<file_path, running, main, file_pos, queue, carry, last_good_temp,
                   last_good_hum, main_t_start_abs>>
    /\ UNCHANGED <<overlay_vars, files, order_vars, cache_vars>>
    /\ UNCHANGED <<dialog, stopping, main_abs>>
    /\ UNCHANGED <<buf_vars, rd_vars, lab_vars>>

\* one turn of  for ln in lines: parsed = parse(...); if parsed: queue.put(parsed)
MainParse(th) ==
    /\ thr[th].pc = "parse"
    /\ LET ln == Head(thr[th].lines)
           parsed == parse_log_line_abs_seconds(ln.s, last_good_temp, last_good_hum)
           alone == parse_log_line_abs_seconds(ln.s, iso_temp[0], iso_hum[0])
       IN /\ last_good_temp' = CacheAfter(parsed, last_good_temp, IF parsed = None THEN 0 ELSE parsed[1].temp)
          /\ last_good_hum' = CacheAfter(parsed, last_good_hum, IF parsed = None THEN 0 ELSE parsed[1].hum)
          /\ queue' = IF parsed = None THEN queue ELSE Append(queue, parsed[1])
          /\ queue_rd' = IF parsed = None THEN queue_rd ELSE Append(queue_rd, ln.rd)
          /\ prev_acc' = IF parsed = None THEN prev_acc
                         ELSE [prev_acc EXCEPT ![0][parsed[1].sid] = parsed]
          /\ iso_temp' = [iso_temp EXCEPT ![0] = CacheAfter(alone, @, IF alone = None THEN 0 ELSE alone[1].temp)]
          /\ iso_hum' = [iso_hum EXCEPT ![0] = CacheAfter(alone, @, IF alone = None THEN 0 ELSE alone[1].hum)]
          /\ thr' = [thr EXCEPT ![th].lines = Tail(@),
                                ![th].pc = IF Len(thr[th].lines) = 1 THEN "poll" ELSE "parse"]
    /\ UNCHANGED <<file_path, running, main, file_pos, event_q, carry, main_t_start_abs>>
    /\ UNCHANGED <<overlay_vars, files, ops, rdclock, appended_rd, in_order>>
    /\ UNCHANGED <<dialog, stopping, main_abs>>
    /\ UNCHANGED <<buf_vars, rd_vars, lab_vars>>

-----------------------------------------------------------------------------
(* Overlays *)

Listed(list, o) == \E i \in 1..Len(list) : list[i] = o

\* An OverlayItem nothing refers to any more (not listed, no thread on it, no
\* import of it pending) is garbage: its identity stands for a new object.
Unreferenced(o, list, item, q, ld) ==
    /\ ~Listed(list, o)
    /\ item.pc = "none"
    /\ \A j \in ld : j.ov # o
    /\ \A i \in 1..Len(q) : q[i].ov # o

Collect(ovs, list, q, ld) ==
    [o \in OvIds |-> IF Unreferenced(o, list, ovs[o], q, ld) THEN OverlayItem ELSE ovs[o]]

FreshOv(o) ==
    /\ Unreferenced(o, overlays, ov[o], overlay_load_q, loaders)
    /\ \A u \in OvIds : u < o => ~Unreferenced(u, overlays, ov[u], overlay_load_q, loaders)

\* A cap that is never reached (what AtLimit must not be).
NeverAtLimit(list) == FALSE

\* len(self.monitor.overlays) >= MAX_OVERLAYS
AtLimit(list) == Len(list) >= MAX_OVERLAYS

\* DataMonitor.start_live_overlay on a new OverlayItem: the fields it sets
\* and its _tail thread.
start_live_overlay(item) ==
    [item EXCEPT !.path = Some("overlay.log"), !.live = TRUE, !.running = TRUE,
                 !.file_pos = 0, !.carry = << >>, !.t_start_abs = None, !.pc = "poll"]

\* LivePlotterApp.add_overlay_live: a warning and nothing else at the cap,
\* else DataMonitor.add_overlay and start_live_overlay.
AddOverlayLive(o) ==
    /\ Op
    /\ IF AtLimit(overlays)
       THEN /\ dialog' = "Max overlays"
            /\ UNCHANGED <<overlays, ov, cache_vars>>
       ELSE /\ dialog' = "none"
            /\ FreshOv(o)
            /\ overlays' = Append(overlays, o)
            /\ ov' = [ov EXCEPT ![o] = start_live_overlay(OverlayItem)]
            /\ prev_acc' = [prev_acc EXCEPT ![o] = NoCache]
            /\ iso_temp' = [iso_temp EXCEPT ![o] = NoCache]
            /\ iso_hum' = [iso_hum EXCEPT ![o] = NoCache]
    /\ UNCHANGED <<monitor_vars, overlay_load_q, loaders, thr, files, order_vars>>
    /\ UNCHANGED <<stopping, main_abs>>
    /\ UNCHANGED <<buf_vars, rd_vars, lab_vars>>

\* A remove that stops the tailer of every listed overlay (what
\* RemoveOverlay must not be).
RemoveAndStopAll(i) ==
    /\ Op
    /\ i \in 1..Len(overlays)
    /\ LET rest == SubSeq(overlays, 1, i - 1) \o SubSeq(overlays, i + 1, Len(overlays)) IN
       /\ overlays' = rest
       /\ ov' = Collect([o \in OvIds |-> IF Listed(overlays, o)
                                         THEN [ov[o] EXCEPT !.running = FALSE] ELSE ov[o]],
                        rest, overlay_load_q, loaders)
    /\ dialog' = "none"
    /\ UNCHANGED <<monitor_vars, overlay_load_q, loaders, thr, files, order_vars, cache_vars>>
    /\ UNCHANGED <<stopping, main_abs>>
    /\ UNCHANGED <<buf_vars, rd_vars, lab_vars>>

\* DataMonitor.remove_overlay, called by remove_selected_overlays for entry i
RemoveOverlay(i) ==
    /\ Op
    /\ i \in 1..Len(overlays)
    /\ LET rest == SubSeq(overlays, 1, i - 1) \o SubSeq(overlays, i + 1, Len(overlays)) IN
       /\ overlays' = rest
       /\ ov' = Collect([ov EXCEPT ![overlays[i]].running = FALSE], rest,
                        overlay_load_q, loaders)
    /\ dialog' = "none"
    /\ UNCHANGED <<monitor_vars, overlay_load_q, loaders, thr, files, order_vars, cache_vars>>
    /\ UNCHANGED <<stopping, main_abs>>
    /\ UNCHANGED <<buf_vars, rd_vars, lab_vars>>

\* clear_all_overlays -> DataMonitor.clear_overlays
ClearOverlays ==
    /\ Op
    /\ overlays # << >>
    /\ overlays' = << >>
    /\ ov' = Collect([o \in OvIds |-> IF Listed(overlays, o)
                                      THEN [ov[o] EXCEPT !.running = FALSE] ELSE ov[o]],
                     << >>, overlay_load_q, loaders)
    /\ dialog' = "none"
    /\ UNCHANGED <<monitor_vars, overlay_load_q, loaders, thr, files, order_vars, cache_vars>>
    /\ UNCHANGED <<stopping, main_abs>>
    /\ UNCHANGED <<buf_vars, rd_vars, lab_vars>>

\* The head of _tail's loop would see a truncation.
OvTruncated(o) ==
    /\ ov[o].running /\ ov[o].path # None
    /\ Truncated(Len(files[o]), ov[o].file_pos, ov[o].last_size)

\* _tail, the head of one iteration: the loop condition, getsize and the
\* truncation check.  The file of a thread that returned is watched no more.
OvPoll(o) ==
    /\ ov[o].pc = "poll"
    /\ IF ~(ov[o].running /\ ov[o].path # None)
       THEN /\ ov' = Collect([ov EXCEPT ![o].pc = "none", ![o].last_size = 0],
                             overlays, overlay_load_q, loaders)
            /\ files' = [files EXCEPT ![o] = EmptyFile]
       ELSE /\ IF OvTruncated(o)
               THEN ov' = [ov EXCEPT ![o].file_pos = 0, ![o].carry = << >>,
                                     ![o].t_start_abs = None,
                                     ![o].last_size = Len(files[o]), ![o].pc = "read"]
               ELSE ov' = [ov EXCEPT ![o].last_size = Len(files[o]), ![o].pc = "read"]
            /\ UNCHANGED files
    /\ prev_acc' = IF OvTruncated(o) THEN [prev_acc EXCEPT ![o] = NoCache] ELSE prev_acc
    /\ UNCHANGED <<monitor_vars, overlays, overlay_load_q, loaders, thr, ops, order_vars,
                   iso_temp, iso_hum>>
    /\ UNCHANGED <<dialog, stopping, main_abs>>
    /\ UNCHANGED <<buf_vars, rd_vars, lab_vars>>

\* the same read in _tail, on the overlay's own offset and carry
OvRead(o) ==
    /\ ov[o].pc = "read"
    /\ LET r == ReadStep(files[o], ov[o].file_pos, ov[o].carry) IN
          ov' = [ov EXCEPT ![o].file_pos = r.file_pos,
                           ![o].carry = r.carry,
                           ![o].lines = r.lines,
                           ![o].pc = IF r.lines = << >> THEN "poll" ELSE "parse"]
    /\ UNCHANGED <<monitor_vars, overlays, overlay_load_q, loaders, thr, files, ops,
                   order_vars, cache_vars>>
    /\ UNCHANGED <<dialog, stopping, main_abs>>
    /\ UNCHANGED <<buf_vars, rd_vars, lab_vars>>

\* getsize raises FileNotFoundError in _tail: sleep and continue
OvPollAbsent(o) ==
    /\ ov[o].pc = "poll"
    /\ ov[o].running /\ ov[o].path # None
    /\ UNCHANGED vars

\* open, seek or read raises e in _tail: except Exception: pass
OvReadError(o, e) ==
    /\ Op
    /\ ov[o].pc = "read"
    /\ ov' = [ov EXCEPT ![o].pc = "poll"]
    /\ UNCHANGED <<monitor_vars, overlays, overlay_load_q, loaders, thr, files,
                   order_vars, cache_vars>>
    /\ UNCHANGED <<dialog, stopping, main_abs>>
    /\ UNCHANGED <<buf_vars, rd_vars, lab_vars>>

\* one turn of the loop over lines: parse with the monitor's parser, rebase
\* the time and push into the overlay's own buffers
OvParse(o) ==
    /\ ov[o].pc = "parse"
    /\ LET ln == Head(ov[o].lines)
           parsed == parse_log_line_abs_seconds(ln, last_good_temp, last_good_hum)
           alone == parse_log_line_abs_seconds(ln, iso_temp[o], iso_hum[o])
           start == IF ov[o].t_start_abs = None /\ parsed # None
                    THEN Some(parsed[1].t) ELSE ov[o].t_start_abs
           pc2 == IF Len(ov[o].lines) = 1 THEN "poll" ELSE "parse"
       IN /\ last_good_temp' = CacheAfter(parsed, last_good_temp, IF parsed = None THEN 0 ELSE parsed[1].temp)
          /\ last_good_hum' = CacheAfter(parsed, last_good_hum, IF parsed = None THEN 0 ELSE parsed[1].hum)
          /\ ov' = IF parsed = None
                   THEN [ov EXCEPT ![o].lines = Tail(@), ![o].pc = pc2]
                   ELSE [ov EXCEPT ![o].lines = Tail(@), ![o].pc = pc2,
                                   ![o].t_start_abs = start,
                                   ![o].buffers = push(@, parsed[1].t - start[1],
                                                       parsed[1].sid, parsed[1].temp,
                                                       parsed[1].hum),
                                   ![o].abs_buffers = push(@, parsed[1].t,
                                                           parsed[1].sid, parsed[1].temp,
                                                           parsed[1].hum)]
          /\ prev_acc' = IF parsed = None THEN prev_acc
                         ELSE [prev_acc EXCEPT ![o][parsed[1].sid] = parsed]
          /\ iso_temp' = [iso_temp EXCEPT ![o] = CacheAfter(alone, @, IF alone = None THEN 0 ELSE alone[1].temp)]
          /\ iso_hum' = [iso_hum EXCEPT ![o] = CacheAfter(alone, @, IF alone = None THEN 0 ELSE alone[1].hum)]
    /\ UNCHANGED <<file_path, running, main, file_pos, queue, event_q, carry,
                   main_t_start_abs>>
    /\ UNCHANGED <<overlays, overlay_load_q, loaders, thr, files, ops, order_vars>>
    /\ UNCHANGED <<dialog, stopping, main_abs>>
    /\ UNCHANGED <<buf_vars, rd_vars, lab_vars>>

-----------------------------------------------------------------------------
(* Static CSV import *)

CsvRow(ts, Tin, Hin, Tout, Hout) ==
    [ts |-> ts, Tin |-> Tin, Hin |-> Hin, Tout |-> Tout, Hout |-> Hout]

\* Export files offered to the import: columns says whether the four value
\* columns are in the header, has_ts whether the timestamp column is; a cell
\* is optional (blank, or a timestamp that does not parse).
CsvTable == <<
    [columns |-> TRUE, has_ts |-> TRUE,
     rows |-> << CsvRow(Some(0), Some(25), Some(50), None, None),
                 CsvRow(None, Some(200), Some(50), Some(26), Some(50)) >>],
    [columns |-> FALSE, has_ts |-> TRUE, rows |-> << >>] >>

CsvIds == 1..Len(CsvTable)

\* A row time that falls back to 0 (what RowTime must not be).
RowTimeZero(csv, idx) ==
    LET row == csv.rows[idx + 1] IN
    IF csv.has_ts /\ row.ts # None THEN row.ts[1] ELSE 0

\* The time the worker gives row number idx (from 0).
RowTime(csv, idx) ==
    LET row == csv.rows[idx + 1] IN
    IF csv.has_ts /\ row.ts # None THEN row.ts[1] ELSE idx * STATIC_DT_SEC

\* The rows that go to channel ch, as a sequence of row numbers from idx on.
RECURSIVE RowsWith(_, _, _)
RowsWith(csv, ch, idx) ==
    IF idx >= Len(csv.rows) THEN << >>
    ELSE LET row == csv.rows[idx + 1]
             has == IF ch = 1 THEN row.Tin # None /\ row.Hin # None
                    ELSE row.Tout # None /\ row.Hout # None
         IN (IF has THEN <<idx>> ELSE << >>) \o RowsWith(csv, ch, idx + 1)

\* The message _load_static_csv_worker puts on overlay_load_q.
StaticLoaded(o, csv) ==
    LET r1 == RowsWith(csv, 1, 0)
        r2 == RowsWith(csv, 2, 0)
    IN [ov |-> o,
        t1 |-> [i \in 1..Len(r1) |-> RowTime(csv, r1[i])],
        T1 |-> [i \in 1..Len(r1) |-> csv.rows[r1[i] + 1].Tin[1]],
        H1 |-> [i \in 1..Len(r1) |-> csv.rows[r1[i] + 1].Hin[1]],
        t2 |-> [i \in 1..Len(r2) |-> RowTime(csv, r2[i])],
        T2 |-> [i \in 1..Len(r2) |-> csv.rows[r2[i] + 1].Tout[1]],
        H2 |-> [i \in 1..Len(r2) |-> csv.rows[r2[i] + 1].Hout[1]]]

\* LivePlotterApp.add_overlay_static_csv: a warning and nothing else at the
\* cap, else DataMonitor.add_overlay and a worker thread
AddOverlayStatic(o, c) ==
    /\ Op
    /\ IF AtLimit(overlays)
       THEN /\ dialog' = "Max overlays"
            /\ UNCHANGED <<overlays, ov, loaders, cache_vars>>
       ELSE /\ dialog' = "none"
            /\ FreshOv(o)
            /\ overlays' = Append(overlays, o)
            /\ ov' = [ov EXCEPT ![o] = OverlayItem]
            /\ loaders' = loaders \cup {[ov |-> o, csv |-> c]}
            /\ prev_acc' = [prev_acc EXCEPT ![o] = NoCache]
            /\ iso_temp' = [iso_temp EXCEPT ![o] = NoCache]
            /\ iso_hum' = [iso_hum EXCEPT ![o] = NoCache]
    /\ UNCHANGED <<monitor_vars, overlay_load_q, thr, files, order_vars>>
    /\ UNCHANGED <<stopping, main_abs>>
    /\ UNCHANGED <<buf_vars, rd_vars, lab_vars>>

\* _load_static_csv_worker: raises (the thread ends) when a value column is
\* missing, else hands the parsed arrays to the Tk thread.
LoadStaticCsvWorker(j) ==
    /\ j \in loaders
    /\ loaders' = loaders \ {j}
    /\ overlay_load_q' = IF CsvTable[j.csv].columns
                         THEN Append(overlay_load_q, StaticLoaded(j.ov, CsvTable[j.csv]))
                         ELSE overlay_load_q
    /\ ov' = Collect(ov, overlays, overlay_load_q', loaders')
    /\ UNCHANGED <<monitor_vars, overlays, thr, files, ops, order_vars, cache_vars>>
    /\ UNCHANGED <<dialog, stopping, main_abs>>
    /\ UNCHANGED <<buf_vars, rd_vars, lab_vars>>

\* for t, te, hu in zip(ts, Ts, Hs): buffers.push(t, sid, te, hu)
RECURSIVE PushAll(_, _, _, _, _)
PushAll(b, sid, ts, Ts, Hs) ==
    IF ts = << >> \/ Ts = << >> \/ Hs = << >> THEN b
    ELSE PushAll(push(b, Head(ts), sid, Head(Ts), Head(Hs)), sid, Tail(ts), Tail(Ts), Tail(Hs))

\* _handle_overlay_loads: the overlays after every queued message is handled
RECURSIVE HandleOverlayLoads(_, _)
HandleOverlayLoads(q, ovs) ==
    IF q = << >> THEN ovs
    ELSE LET m == Head(q)
             b == PushAll(PushAll(clear(ovs[m.ov].buffers), 1, m.t1, m.T1, m.H1),
                          2, m.t2, m.T2, m.H2)
         IN HandleOverlayLoads(Tail(q), [ovs EXCEPT ![m.ov].buffers = b])

-----------------------------------------------------------------------------
(* The consumer's tick *)

\* The queue drain of update_plot: the buffers and the anchor after it.
RECURSIVE Drain(_, _, _)
Drain(q, b, anchor) ==
    IF q = << >> THEN [b |-> b, anchor |-> anchor]
    ELSE LET x == Head(q)
             a == IF anchor = None THEN Some(x.t) ELSE anchor
         IN Drain(Tail(q), push(b, x.t - a[1], x.sid, x.temp, x.hum), a)

IsIncreasing(s) == \A i \in 1..(Len(s) - 1) : s[i] < s[i + 1]

\* LivePlotterApp.update_plot: _handle_events (reset_main on a RESET event),
\* _handle_overlay_loads, then the drain of the hand-off queue.
UpdatePlot ==
    /\ event_q # << >> \/ overlay_load_q # << >> \/ queue # << >>
    /\ event_q' = << >>
    /\ overlay_load_q' = << >>
    /\ ov' = Collect(HandleOverlayLoads(overlay_load_q, ov), overlays, << >>, loaders)
    /\ IF \E i \in 1..Len(event_q) : event_q[i] = "RESET"
       THEN /\ reset_main
            /\ UNCHANGED in_order
       ELSE LET d == Drain(queue, main, main_t_start_abs) IN
            /\ main' = d.b
            /\ main_abs' = Drain(queue, main_abs, Some(0)).b
            /\ main_t_start_abs' = d.anchor
            /\ queue' = << >>
            /\ queue_rd' = << >>
            /\ appended_rd' = IF queue_rd = << >> THEN appended_rd ELSE queue_rd[Len(queue_rd)]
            /\ in_order' = (in_order /\ IsIncreasing(<<appended_rd>> \o queue_rd))
            /\ UNCHANGED <<carry, last_good_temp, last_good_hum, file_pos, cache_vars>>
    /\ UNCHANGED <<file_path, running, overlays, loaders, thr, files, ops, rdclock>>
    /\ UNCHANGED <<dialog, stopping>>
    /\ UNCHANGED <<buf_vars, rd_vars, lab_vars>>

-----------------------------------------------------------------------------
(* The environment: the writers of the watched files *)

Watched(s) ==
    IF s = 0 THEN \E th \in Threads : thr[th].pc # "none"
    ELSE ov[s].pc # "none"

\* A writer appends the body of a line, not yet its terminator.
WriteBody(s, l) ==
    /\ Op
    /\ Watched(s)
    /\ ~EndsOpen(files[s])
    /\ Bodies(files[s]) < MaxFile
    /\ files' = [files EXCEPT ![s] = Append(@, l)]
    /\ UNCHANGED <<monitor_vars, overlay_vars, thr, order_vars, cache_vars>>
    /\ UNCHANGED <<dialog, stopping, main_abs>>
    /\ UNCHANGED <<buf_vars, rd_vars, lab_vars>>

\* ... and then the terminator.
WriteNewline(s) ==
    /\ Watched(s)
    /\ EndsOpen(files[s])
    /\ files' = [files EXCEPT ![s] = Append(@, NL)]
    /\ UNCHANGED <<monitor_vars, overlay_vars, thr, ops, order_vars, cache_vars>>
    /\ UNCHANGED <<dialog, stopping, main_abs>>
    /\ UNCHANGED <<buf_vars, rd_vars, lab_vars>>

\* The file is cleared (log rotation, or the logger reopening it with "w").
TruncateFile(s) ==
    /\ Op
    /\ Watched(s)
    /\ files[s] # EmptyFile
    /\ files' = [files EXCEPT ![s] = EmptyFile]
    /\ UNCHANGED <<monitor_vars, overlay_vars, thr, order_vars, cache_vars>>
    /\ UNCHANGED <<dialog, stopping, main_abs>>
    /\ UNCHANGED <<buf_vars, rd_vars, lab_vars>>

-----------------------------------------------------------------------------
(* Specification *)

Next ==
    \/ LoadFile
    \/ Start
    \/ Stop
    \/ ResetMain
    \/ \E th \in Threads : MainPoll(th)
    \/ \E th \in Threads : MainPollAbsent(th)
    \/ \E th \in Threads : MainRead(th)
    \/ \E th \in Threads, e \in IOErrors : MainReadError(th, e)
    \/ \E th \in Threads : MainParse(th)
    \/ \E o \in 1..MaxOvMain : AddOverlayLive(o)
    \/ \E o \in 1..MaxOvMain, c \in CsvIds : AddOverlayStatic(o, c)
    \/ \E j \in loaders : LoadStaticCsvWorker(j)
    \/ \E i \in 1..MAX_OVERLAYS : RemoveOverlay(i)
    \/ ClearOverlays
    \/ \E o \in OvIds : OvPoll(o)
    \/ \E o \in OvIds : OvPollAbsent(o)
    \/ \E o \in OvIds : OvRead(o)
    \/ \E o \in OvIds, e \in IOErrors : OvReadError(o, e)
    \/ \E o \in OvIds : OvParse(o)
    \/ UpdatePlot
    \/ \E l \in PrimaryLines : WriteBody(0, l)
    \/ \E o \in OvIds, l \in OverlayLines : WriteBody(o, l)
    \/ \E s \in Sources : WriteNewline(s)
    \/ \E s \in Sources : TruncateFile(s)

Spec == Init /\ [][Next]_vars

\* The overlay management on its own: the overlay buttons, the overlay
\* tailers and importers, the consumer's tick and the writers of the overlay
\* files, with every OverlayItem object in use.
NextOverlays ==
    \/ \E o \in OvIds : AddOverlayLive(o)
    \/ \E o \in OvIds, c \in CsvIds : AddOverlayStatic(o, c)
    \/ \E j \in loaders : LoadStaticCsvWorker(j)
    \/ \E i \in 1..MAX_OVERLAYS : RemoveOverlay(i)
    \/ ClearOverlays
    \/ \E o \in OvIds : OvPoll(o)
    \/ \E o \in OvIds : OvRead(o)
    \/ \E o \in OvIds : OvParse(o)
    \/ UpdatePlot
    \/ \E o \in OvIds, l \in OverlayLines : WriteBody(o, l)
    \/ \E o \in OvIds : WriteNewline(o)

SpecOverlays == Init /\ [][NextOverlays]_vars

-----------------------------------------------------------------------------
(* A StreamBuffers object under any sequence of push and clear *)

\* Appends to one deque between two clears.
MaxPushed == 3
PushTimes == {0, 250}
PushTemps == {25, 26}
PushHums == {50}

BufPush(t, sid, temp, hum) ==
    /\ Len(IF sid = 1 THEN pushed.t1 ELSE pushed.t2) < MaxPushed
    /\ buf' = push(buf, t, sid, temp, hum)
    /\ pushed' = IF sid = 1
                 THEN [pushed EXCEPT !.t1 = Append(@, t), !.T1 = Append(@, temp),
                                     !.H1 = Append(@, hum)]
                 ELSE [pushed EXCEPT !.t2 = Append(@, t), !.T2 = Append(@, temp),
                                     !.H2 = Append(@, hum)]
    /\ UNCHANGED <<sys_vars, rd_vars, lab_vars>>

BufClear ==
    /\ pushed # EmptyBuffers
    /\ buf' = clear(buf)
    /\ pushed' = EmptyBuffers
    /\ UNCHANGED <<sys_vars, rd_vars, lab_vars>>

NextBuffers ==
    \/ \E t \in PushTimes, sid \in 1..2, temp \in PushTemps, hum \in PushHums :
          BufPush(t, sid, temp, hum)
    \/ BufClear

SpecBuffers == Init /\ [][NextBuffers]_vars

-----------------------------------------------------------------------------
(* A tailer reading one byte stream that is appended piece by piece *)

\* Bytes of the stream.
MaxStream == 3
\* 1 is an ASCII byte of a line body.
StreamBytes == {1, NL, CR, LEAD, CONT}
Streams == UNION {[1..n -> StreamBytes] : n \in 1..MaxStream}

InitLines ==
    /\ InitApp /\ InitBuf /\ InitFn /\ InitExp /\ InitSn /\ InitTerm
    /\ stream \in Streams
    /\ written = 0
    /\ rd_pos = 0
    /\ rd_carry = << >>
    /\ handed = << >>

\* The writer appends the stream up to byte n.
AppendBytes(n) ==
    /\ written < n /\ n <= Len(stream)
    /\ written' = n
    /\ UNCHANGED <<stream, rd_pos, rd_carry, handed, sys_vars, buf_vars, lab_vars>>

\* One iteration of the tailer's loop that finds new bytes.
TailRead ==
    /\ rd_pos < written
    /\ LET r == ReadStep(SubSeq(stream, 1, written), rd_pos, rd_carry) IN
          /\ rd_pos' = r.file_pos
          /\ rd_carry' = r.carry
          /\ handed' = handed \o r.lines
    /\ UNCHANGED <<stream, written, sys_vars, buf_vars, lab_vars>>

NextLines ==
    \/ \E n \in 1..MaxStream : AppendBytes(n)
    \/ TailRead

SpecLines == InitLines /\ [][NextLines]_vars

-----------------------------------------------------------------------------
(* The helper functions of the plot and the export, one call each *)

\* bisect.bisect_left(a, x) on a[lo:hi], indices from 0
RECURSIVE BisectLeft(_, _, _, _)
BisectLeft(a, x, lo, hi) ==
    IF lo >= hi THEN lo
    ELSE LET mid == (lo + hi) \div 2 IN
         IF a[mid + 1] < x THEN BisectLeft(a, x, mid + 1, hi)
         ELSE BisectLeft(a, x, lo, mid)

bisect_left(a, x) == BisectLeft(a, x, 0, Len(a))

\* The pairs of times (milliseconds) a whole tolerance apart whose distance,
\* taken on the doubles, is above the double 0.3: abs(0.1 - 0.4) is
\* 0.30000000000000004.
AboveTolerance == {<<100, 400>>, <<400, 100>>}

\* abs(t_list[j] - t) <= max_dt, on the doubles
WithinTolerance(tj, t, max_dt) ==
    \/ Abs(tj - t) < max_dt
    \/ Abs(tj - t) = max_dt /\ <<tj, t>> \notin AboveTolerance

\* nearest_by_time: the value, or None
nearest_by_time(t_list, v_list, t, max_dt) ==
    IF t_list = << >> THEN None
    ELSE LET i == bisect_left(t_list, t)
             candidates == (IF i < Len(t_list) THEN <<i>> ELSE << >>)
                           \o (IF i > 0 THEN <<i - 1>> ELSE << >>)
             dt(j) == Abs(t_list[j + 1] - t)
             best == IF Len(candidates) = 2 /\ dt(candidates[2]) < dt(candidates[1])
                     THEN candidates[2] ELSE candidates[1]
         IN IF WithinTolerance(t_list[best + 1], t, max_dt) THEN Some(v_list[best + 1])
            ELSE None

\* round(tsec * 1000.0) for tsec >= 0 given in tenths of a millisecond: to
\* the nearest integer; on a half the float product decides, either
\* neighbour can come out.
RoundMs(tenths) ==
    LET q == tenths \div 10
        r == tenths % 10
    IN IF r < 5 THEN {q} ELSE IF r > 5 THEN {q + 1} ELSE {q, q + 1}

\* The text MM:SS.mmm as its three numbers.
mmss_mmm(total_ms) ==
    [m |-> (total_ms \div 1000) \div 60, s |-> (total_ms \div 1000) % 60, ms |-> total_ms % 1000]

\* sec_to_mmss_mmm for a time in tenths of a millisecond: the texts it can
\* return
sec_to_mmss_mmm(tenths) ==
    {mmss_mmm(total_ms) : total_ms \in RoundMs(IF tenths < 0 THEN 0 ELSE tenths)}

\* s[::stride]
Slice(s, stride) ==
    [i \in 1..((Len(s) + stride - 1) \div stride) |-> s[(i - 1) * stride + 1]]

\* A downsampling that always takes every second point (what downsample_xy
\* must not be).
DownsampleHalf(xs, ys, max_points) == <<Slice(xs, 2), Slice(ys, 2)>>

downsample_xy(xs, ys, max_points) ==
    LET n == Len(xs) IN
    IF n <= max_points THEN <<xs, ys>>
    ELSE LET stride == IF n \div max_points < 1 THEN 1 ELSE n \div max_points
         IN <<Slice(xs, stride), Slice(ys, stride)>>

SeqMin(ys) == CHOOSE y \in {ys[i] : i \in DOMAIN ys} : \A i \in DOMAIN ys : y <= ys[i]
SeqMax(ys) == CHOOSE y \in {ys[i] : i \in DOMAIN ys} : \A i \in DOMAIN ys : y >= ys[i]

\* [y for x, y in zip(xs, ys) if x0 <= x <= x1]
RECURSIVE Window(_, _, _, _)
Window(xs, ys, x0, x1) ==
    IF xs = << >> \/ ys = << >> THEN << >>
    ELSE (IF x0 <= Head(xs) /\ Head(xs) <= x1 THEN <<Head(ys)>> ELSE << >>)
         \o Window(Tail(xs), Tail(ys), x0, x1)

\* LivePlotterApp._fast_ylim: the pair (low, high), or None; y values are in
\* ten-thousandths of a unit
fast_ylim(xs, ys, x0, x1) ==
    IF xs = << >> THEN None
    ELSE LET ys_win == Window(xs, ys, x0, x1) IN
         IF ys_win = << >> THEN None
         ELSE LET ymin == SeqMin(ys_win)
                  ymax == SeqMax(ys_win)
                  span == IF MIN_YSPAN > ymax - ymin THEN MIN_YSPAN ELSE ymax - ymin
                  pad == (span * Y_PAD_FRAC) \div 100
              IN Some(<<ymin - pad, ymax + pad>>)

\* Times of the series and of the queries: multiples of GridStep milliseconds.
GridStep == 100
MaxTick == 6
\* Samples in a series.
MaxSeries == 3
Grid == {k * GridStep : k \in 0..MaxTick}
IsAscending(s) == \A i \in 1..(Len(s) - 1) : s[i] <= s[i + 1]
Series == {s \in UNION {[1..n -> Grid] : n \in 0..MaxSeries} : IsAscending(s)}
\* The value of the i-th sample is 10 * i.
ValuesOf(s) == [i \in 1..Len(s) |-> 10 * i]

\* Times for sec_to_mmss_mmm, in tenths of a millisecond: MaxTenths steps
\* from zero and from just below one minute.
MaxTenths == 30
TimeBases == {0, 599980}
Tenths == {b + k : b \in TimeBases, k \in 0..MaxTenths}

\* Lengths and draw budgets for downsample_xy.
MaxLen == 8
MaxBudget == 4

\* y values for _fast_ylim (25.0, 25.1, 26.0 and 30.0 units), two samples.
YValues == {250000, 251000, 260000, 300000}
YSeries == {s \in UNION {[1..n -> {0, GridStep}] : n \in 1..2} : IsAscending(s)}

Call(fn, xs, ys, a, b) == [fn |-> fn, xs |-> xs, ys |-> ys, a |-> a, b |-> b]

Calls ==
    {Call("nearest_by_time", s, ValuesOf(s), t, EXPORT_MAX_DT_SEC) : s \in Series, t \in Grid}
    \cup {Call("sec_to_mmss_mmm", << >>, << >>, n, 0) : n \in Tenths}
    \cup {Call("downsample_xy", [i \in 1..n |-> i], [i \in 1..n |-> 10 * i], m, 0) :
             n \in 0..MaxLen, m \in 1..MaxBudget}
    \cup UNION {{Call("_fast_ylim", s, ys, 0, x1) : ys \in [1..Len(s) -> YValues]} :
                   s \in YSeries, x1 \in {0, GridStep}}

InitHelpers ==
    /\ InitApp /\ InitBuf /\ InitRd /\ InitExp /\ InitSn /\ InitTerm
    /\ call \in Calls
    /\ ret = None

CallNearestByTime ==
    /\ call.fn = "nearest_by_time" /\ ret = None
    /\ ret' = Some(nearest_by_time(call.xs, call.ys, call.a, call.b))
    /\ UNCHANGED <<call, sys_vars, buf_vars, rd_vars, exp_vars, sn_vars, term_vars>>

CallSecToMmssMmm ==
    /\ call.fn = "sec_to_mmss_mmm" /\ ret = None
    /\ \E text \in sec_to_mmss_mmm(call.a) : ret' = Some(text)
    /\ UNCHANGED <<call, sys_vars, buf_vars, rd_vars, exp_vars, sn_vars, term_vars>>

CallDownsampleXy ==
    /\ call.fn = "downsample_xy" /\ ret = None
    /\ ret' = Some(downsample_xy(call.xs, call.ys, call.a))
    /\ UNCHANGED <<call, sys_vars, buf_vars, rd_vars, exp_vars, sn_vars, term_vars>>

CallFastYlim ==
    /\ call.fn = "_fast_ylim" /\ ret = None
    /\ ret' = Some(fast_ylim(call.xs, call.ys, call.a, call.b))
    /\ UNCHANGED <<call, sys_vars, buf_vars, rd_vars, exp_vars, sn_vars, term_vars>>

NextHelpers ==
    \/ CallNearestByTime
    \/ CallSecToMmssMmm
    \/ CallDownsampleXy
    \/ CallFastYlim

SpecHelpers == InitHelpers /\ [][NextHelpers]_vars

-----------------------------------------------------------------------------
(* The export of the primary's buffers, and its import as a static overlay *)

SeqToSet(q) == {q[i] : i \in DOMAIN q}

\* sorted(S)
RECURSIVE Sorted(_)
Sorted(S) ==
    IF S = {} THEN << >>
    ELSE LET lo == CHOOSE x \in S : \A y \in S : x <= y IN <<lo>> \o Sorted(S \ {lo})

\* f"{v:.3f}" on a whole number, and "" for None: the cell reads back as
\* the number, or as None
Cell(v) == v

\* One row of the exported file: the timestamp text and the four cells; t is
\* history, the time the row was made for.
ExportRow(b, t) ==
    [t |-> t,
     ts |-> CHOOSE text \in sec_to_mmss_mmm(10 * t) : TRUE,
     Tin |-> Cell(nearest_by_time(b.t1, b.T1, t, EXPORT_MAX_DT_SEC)),
     Hin |-> Cell(nearest_by_time(b.t1, b.H1, t, EXPORT_MAX_DT_SEC)),
     Tout |-> Cell(nearest_by_time(b.t2, b.T2, t, EXPORT_MAX_DT_SEC)),
     Hout |-> Cell(nearest_by_time(b.t2, b.H2, t, EXPORT_MAX_DT_SEC))]

\* times = sorted(set(t_in + t_out))
ExportTimes(b) == Sorted(SeqToSet(b.t1) \cup SeqToSet(b.t2))

\* The data rows export_csv writes.
ExportRows(b) == [i \in 1..Len(ExportTimes(b)) |-> ExportRow(b, ExportTimes(b)[i])]

\* parse_ts_mmss_mmm on a text MM:SS.mmm, in milliseconds
parse_ts_mmss_mmm(text) == (text.m * 60 + text.s) * 1000 + text.ms

\* The exported file as csv.DictReader and the worker's cell parsers read it.
ReadCsv(rows) ==
    [columns |-> TRUE, has_ts |-> TRUE,
     rows |-> [i \in 1..Len(rows) |->
                  CsvRow(Some(parse_ts_mmss_mmm(rows[i].ts)),
                         rows[i].Tin, rows[i].Hin, rows[i].Tout, rows[i].Hout)]]

\* Samples on the hand-off queue at the start.
MaxQueued == 3
\* Their absolute times, in milliseconds; the i-th has the values 20 + i
\* and 50 + i.
QueuedTimes == {100, 350, 600, 850}
Queues ==
    UNION {{[i \in 1..n |-> Sample(ts[i], sids[i], 20 + i, 50 + i)] :
               ts \in [1..n -> QueuedTimes], sids \in [1..n -> 1..2]} : n \in 1..MaxQueued}

InitExport ==
    /\ InitApp /\ InitBuf /\ InitRd /\ InitFn /\ InitSn /\ InitTerm
    /\ exp_queue \in Queues
    /\ exp_main = EmptyBuffers
    /\ exp_anchor = None
    /\ exp_file = None
    /\ exp_load_q = << >>
    /\ exp_ov = None

\* update_plot: the drain of the hand-off queue
ExpUpdatePlot ==
    /\ exp_queue # << >>
    /\ LET d == Drain(exp_queue, exp_main, exp_anchor) IN
          /\ exp_main' = d.b
          /\ exp_anchor' = d.anchor
    /\ exp_queue' = << >>
    /\ UNCHANGED <<exp_file, exp_load_q, exp_ov, fn_vars, sn_vars, term_vars, sys_vars, buf_vars, rd_vars>>

\* LivePlotterApp.export_csv, with data in the buffers
ExportCsv ==
    /\ exp_file = None
    /\ ExportTimes(exp_main) # << >>
    /\ exp_file' = Some(ExportRows(exp_main))
    /\ UNCHANGED <<exp_queue, exp_main, exp_anchor, exp_load_q, exp_ov>>
    /\ UNCHANGED <<fn_vars, sn_vars, term_vars, sys_vars, buf_vars, rd_vars>>

\* _load_static_csv_worker on the exported file
ExpLoadWorker ==
    /\ exp_file # None /\ exp_load_q = << >> /\ exp_ov = None
    /\ exp_load_q' = <<StaticLoaded(1, ReadCsv(exp_file[1]))>>
    /\ UNCHANGED <<exp_queue, exp_main, exp_anchor, exp_file, exp_ov>>
    /\ UNCHANGED <<fn_vars, sn_vars, term_vars, sys_vars, buf_vars, rd_vars>>

\* _handle_overlay_loads for the one message
ExpHandleLoads ==
    /\ exp_load_q # << >>
    /\ exp_ov' = Some(HandleOverlayLoads(exp_load_q, <<OverlayItem>>)[1].buffers)
    /\ exp_load_q' = << >>
    /\ UNCHANGED <<exp_queue, exp_main, exp_anchor, exp_file>>
    /\ UNCHANGED <<fn_vars, sn_vars, term_vars, sys_vars, buf_vars, rd_vars>>

NextExport ==
    \/ ExpUpdatePlot
    \/ ExportCsv
    \/ ExpLoadWorker
    \/ ExpHandleLoads

SpecExport == InitExport /\ [][NextExport]_vars

-----------------------------------------------------------------------------
(* A live overlay's buffers: the _tail thread pushes, the Tk thread copies *)

\* Samples the _tail thread pushes.
MaxTailPushed == 3
\* The i-th sample pushed: channel 1, time, temperature, humidity.
TailSample(i) == Sample(i * STATIC_DT_SEC, 1, 20 + i, 50 + i)

TailIdle == UNCHANGED <<sn_copy, fn_vars, exp_vars, term_vars, sys_vars, buf_vars, rd_vars>>
CopyIdle == UNCHANGED <<sn_buf, sn_tail, fn_vars, exp_vars, term_vars, sys_vars, buf_vars, rd_vars>>

\* StreamBuffers.push, sid 1: self.t1.append(t)
TailAppendTime ==
    /\ sn_tail.pc = "t1" /\ sn_tail.n < MaxTailPushed
    /\ sn_buf' = [sn_buf EXCEPT !.t1 = DequeAppend(@, TailSample(sn_tail.n + 1).t, MAX_POINTS)]
    /\ sn_tail' = [sn_tail EXCEPT !.pc = "T1"]
    /\ TailIdle

\* self.T1.append(temp)
TailAppendTemp ==
    /\ sn_tail.pc = "T1"
    /\ sn_buf' = [sn_buf EXCEPT !.T1 = DequeAppend(@, TailSample(sn_tail.n + 1).temp, MAX_POINTS)]
    /\ sn_tail' = [sn_tail EXCEPT !.pc = "H1"]
    /\ TailIdle

\* self.H1.append(hum)
TailAppendHum ==
    /\ sn_tail.pc = "H1"
    /\ sn_buf' = [sn_buf EXCEPT !.H1 = DequeAppend(@, TailSample(sn_tail.n + 1).hum, MAX_POINTS)]
    /\ sn_tail' = [n |-> sn_tail.n + 1, pc |-> "t1"]
    /\ TailIdle

\* _apply_overlay_lines: t1 = list(ov.buffers.t1)
CopyTime ==
    /\ sn_copy.pc = "t1"
    /\ sn_copy' = [sn_copy EXCEPT !.pc = "T1", !.t1 = sn_buf.t1]
    /\ CopyIdle

\* T1 = list(ov.buffers.T1)
CopyTemp ==
    /\ sn_copy.pc = "T1"
    /\ sn_copy' = [sn_copy EXCEPT !.pc = "H1", !.T1 = sn_buf.T1]
    /\ CopyIdle

\* H1 = list(ov.buffers.H1)
CopyHum ==
    /\ sn_copy.pc = "H1"
    /\ sn_copy' = [sn_copy EXCEPT !.pc = "draw", !.H1 = sn_buf.H1]
    /\ CopyIdle

\* downsample_xy and set_data on the copies; the next tick copies again
DrawCopies ==
    /\ sn_copy.pc = "draw"
    /\ sn_copy' = [pc |-> "t1", t1 |-> << >>, T1 |-> << >>, H1 |-> << >>]
    /\ CopyIdle

NextSnapshot ==
    \/ TailAppendTime
    \/ TailAppendTemp
    \/ TailAppendHum
    \/ CopyTime
    \/ CopyTemp
    \/ CopyHum
    \/ DrawCopies

SpecSnapshot == Init /\ [][NextSnapshot]_vars

-----------------------------------------------------------------------------
(* The serial terminal: the Tk thread's button handlers and the reader threads *)

\* Operations of the terminal's user.
MaxTermOps == 5

\* SerialTerminalGUI._stop_log: the logging state after it
stop_log ==
    IF ~logging
    THEN [logging |-> logging, log_file |-> log_file, open_files |-> open_files,
          start_log_btn |-> start_log_btn, stop_log_btn |-> stop_log_btn]
    ELSE [logging |-> FALSE, log_file |-> None,
          open_files |-> open_files \ {log_file[i] : i \in DOMAIN log_file},
          start_log_btn |-> IF ser # None THEN TRUE ELSE start_log_btn,
          stop_log_btn |-> FALSE]

\* _toggle_connect -> _connect: ok says whether serial.Serial opens the port.
\* A port or file handle that is opened gets the number term_ops + 1.
Connect(ok) ==
    /\ term_ops < MaxTermOps
    /\ term_ops' = term_ops + 1
    /\ ser = None
    /\ IF ok
       THEN \E r \in Readers :
               /\ readers[r].pc = "none"
               /\ ser' = Some(term_ops + 1)
               /\ stop_event' = FALSE
               /\ readers' = [readers EXCEPT ![r] = [pc |-> "test", port |-> 0]]
               /\ start_log_btn' = TRUE
       ELSE /\ ser' = None
            /\ UNCHANGED <<stop_event, readers, start_log_btn>>
    /\ UNCHANGED <<logging, log_file, open_files, stop_log_btn>>
    /\ UNCHANGED <<sys_vars, buf_vars, rd_vars, fn_vars, exp_vars, sn_vars>>

\* _toggle_connect -> _disconnect
Disconnect ==
    /\ term_ops < MaxTermOps
    /\ term_ops' = term_ops + 1
    /\ ser # None
    /\ logging' = stop_log.logging
    /\ log_file' = stop_log.log_file
    /\ open_files' = stop_log.open_files
    /\ stop_event' = TRUE
    /\ ser' = None
    /\ start_log_btn' = FALSE
    /\ stop_log_btn' = FALSE
    /\ UNCHANGED readers
    /\ UNCHANGED <<sys_vars, buf_vars, rd_vars, fn_vars, exp_vars, sn_vars>>

\* _start_log with a path chosen: ok says whether the file opens
StartLog(ok) ==
    /\ term_ops < MaxTermOps
    /\ term_ops' = term_ops + 1
    /\ start_log_btn
    /\ IF ser = None
       THEN UNCHANGED <<logging, log_file, open_files, start_log_btn, stop_log_btn>>
       ELSE IF ok
       THEN /\ log_file' = Some(term_ops + 1)
            /\ open_files' = open_files \cup {term_ops + 1}
            /\ logging' = TRUE
            /\ stop_log_btn' = TRUE
            /\ start_log_btn' = FALSE
       ELSE /\ log_file' = None
            /\ UNCHANGED <<logging, open_files, start_log_btn, stop_log_btn>>
    /\ UNCHANGED <<ser, stop_event, readers>>
    /\ UNCHANGED <<sys_vars, buf_vars, rd_vars, fn_vars, exp_vars, sn_vars>>

\* The button "Stop log": _stop_log
StopLog ==
    /\ term_ops < MaxTermOps
    /\ term_ops' = term_ops + 1
    /\ stop_log_btn
    /\ logging' = stop_log.logging
    /\ log_file' = stop_log.log_file
    /\ open_files' = stop_log.open_files
    /\ start_log_btn' = stop_log.start_log_btn
    /\ stop_log_btn' = stop_log.stop_log_btn
    /\ UNCHANGED <<ser, stop_event, readers>>
    /\ UNCHANGED <<sys_vars, buf_vars, rd_vars, fn_vars, exp_vars, sn_vars>>

\* _reader_loop: while not self.stop_event.is_set() and self.ser is not None,
\* and the call of self.ser.readline; past the loop the thread ends
ReaderTest(r) ==
    /\ readers[r].pc = "test"
    /\ readers' = [readers EXCEPT ![r] =
                      IF ~stop_event /\ ser # None THEN [pc |-> "readline", port |-> ser[1]]
                      ELSE NoReader]
    /\ UNCHANGED <<logging, log_file, open_files>>
    /\ UNCHANGED <<ser, stop_event, start_log_btn, stop_log_btn, term_ops>>
    /\ UNCHANGED <<sys_vars, buf_vars, rd_vars, fn_vars, exp_vars, sn_vars>>

\* readline returns: a line, or nothing at the timeout; on a port that was
\* closed meanwhile it raises (the thread ends) or returns nothing
ReaderReadline(r, got) ==
    /\ readers[r].pc = "readline"
    /\ got \in (IF ser = Some(readers[r].port) THEN {"line", "nothing"} ELSE {"raise", "nothing"})
    /\ readers' = [readers EXCEPT ![r] =
                      CASE got = "line" -> [pc |-> "check", port |-> 0]
                        [] got = "nothing" -> [pc |-> "test", port |-> 0]
                        [] got = "raise" -> NoReader]
    /\ UNCHANGED <<logging, log_file, open_files>>
    /\ UNCHANGED <<ser, stop_event, start_log_btn, stop_log_btn, term_ops>>
    /\ UNCHANGED <<sys_vars, buf_vars, rd_vars, fn_vars, exp_vars, sn_vars>>

\* if self.logging and self.log_file
ReaderCheck(r) ==
    /\ readers[r].pc = "check"
    /\ readers' = [readers EXCEPT ![r].pc = IF logging /\ log_file # None THEN "write" ELSE "test"]
    /\ UNCHANGED <<logging, log_file, open_files>>
    /\ UNCHANGED <<ser, stop_event, start_log_btn, stop_log_btn, term_ops>>
    /\ UNCHANGED <<sys_vars, buf_vars, rd_vars, fn_vars, exp_vars, sn_vars>>

\* self.log_file.write and flush: they raise on a handle that is None or
\* closed, and when fails says the write fails; the handler clears the flag
ReaderWrite(r, fails) ==
    /\ readers[r].pc = "write"
    /\ readers' = [readers EXCEPT ![r].pc = "test"]
    /\ logging' = IF log_file = None \/ log_file[1] \notin open_files \/ fails
                  THEN FALSE ELSE logging
    /\ UNCHANGED <<log_file, open_files>>
    /\ UNCHANGED <<ser, stop_event, start_log_btn, stop_log_btn, term_ops>>
    /\ UNCHANGED <<sys_vars, buf_vars, rd_vars, fn_vars, exp_vars, sn_vars>>

NextTerminal ==
    \/ \E ok \in BOOLEAN : Connect(ok)
    \/ Disconnect
    \/ \E ok \in BOOLEAN : StartLog(ok)
    \/ StopLog
    \/ \E r \in Readers : ReaderTest(r)
    \/ \E r \in Readers, got \in {"line", "nothing", "raise"} : ReaderReadline(r, got)
    \/ \E r \in Readers : ReaderCheck(r)
    \/ \E r \in Readers, fails \in BOOLEAN : ReaderWrite(r, fails)

SpecTerminal == Init /\ [][NextTerminal]_vars

-----------------------------------------------------------------------------
(* The claims *)

\* C1: on every source and channel, a sample the parser accepts differs from
\* the sample accepted before it on the same channel of the same source by at
\* most MAX_TEMP_STEP_C in temperature and MAX_HUM_STEP_PCT in humidity.
C1_StepBoundPerSource ==
    [][\A s \in Sources, sid \in 1..2 :
          (prev_acc[s][sid] # None /\ prev_acc'[s][sid] # None
             /\ prev_acc'[s][sid] # prev_acc[s][sid])
          => /\ Abs(prev_acc'[s][sid][1].temp - prev_acc[s][sid][1].temp) <= MAX_TEMP_STEP_C
             /\ Abs(prev_acc'[s][sid][1].hum - prev_acc[s][sid][1].hum) <= MAX_HUM_STEP_PCT]_vars

Accepts(s, lgt, lgh) == parse_log_line_abs_seconds(s, lgt, lgh) # None

\* C2: whether the next line of a source is accepted is what a parser fed the
\* lines of that source alone would decide, whatever the other sources did.
C2_SourcesIndependent ==
    /\ \A th \in Threads : thr[th].pc = "parse" =>
          (Accepts(Head(thr[th].lines).s, last_good_temp, last_good_hum)
             <=> Accepts(Head(thr[th].lines).s, iso_temp[0], iso_hum[0]))
    /\ \A o \in OvIds : ov[o].pc = "parse" =>
          (Accepts(Head(ov[o].lines), last_good_temp, last_good_hum)
             <=> Accepts(Head(ov[o].lines), iso_temp[o], iso_hum[o]))

AllInRange(b) ==
    /\ \A i \in 1..Len(b.T1) : valid_ranges(b.T1[i], b.H1[i])
    /\ \A i \in 1..Len(b.T2) : valid_ranges(b.T2[i], b.H2[i])

\* C3: every sample held in a stream buffer (the primary's, a live overlay's,
\* a static overlay's) passed validation: its temperature and humidity are in
\* range.
C3_BufferedSamplesValidated ==
    /\ AllInRange(main)
    /\ \A o \in OvIds : AllInRange(ov[o].buffers)

LastN(s, n) == IF Len(s) <= n THEN s ELSE SubSeq(s, Len(s) - n + 1, Len(s))
Channels == {"t1", "T1", "H1", "t2", "T2", "H2"}

\* C4: after any sequence of push and clear every deque of a StreamBuffers
\* holds at most MAX_POINTS entries, and they are the last ones appended since
\* the last clear, in order: a push on a full deque drops exactly the oldest.
C4_CapacityFifo ==
    \A k \in Channels :
        /\ Len(buf[k]) <= MAX_POINTS
        /\ buf[k] = LastN(pushed[k], MAX_POINTS)

\* C4, its case: a full deque was pushed on and lost its oldest entry.
C4_Evicted ==
    /\ Len(pushed.T1) > MAX_POINTS
    /\ Len(buf.T1) = MAX_POINTS
    /\ pushed.T1[1] # buf.T1[1]

\* C5: when the poll of a tailer, the primary's or a live overlay's, sees a
\* truncation, the read offset is 0 and the carry, the anchor and the
\* last-good caches its lines are checked against are clear before it reads.
C5_TruncationClearsSourceState ==
    [][/\ \A th \in Threads : (MainTruncated(th) /\ MainPoll(th)) =>
             /\ file_pos' = 0 /\ carry' = << >> /\ main_t_start_abs' = None
             /\ last_good_temp' = NoCache /\ last_good_hum' = NoCache
       /\ \A o \in OvIds : (OvTruncated(o) /\ OvPoll(o)) =>
             /\ ov'[o].file_pos = 0 /\ ov'[o].carry = << >> /\ ov'[o].t_start_abs = None
             /\ last_good_temp' = NoCache /\ last_good_hum' = NoCache]_vars

\* C6: when the poll of a tailer, the primary's or a live overlay's, sees a
\* truncation, it puts a RESET event on the event queue for the consumer.
C6_TruncationRaisesReset ==
    [][/\ \A th \in Threads : (MainTruncated(th) /\ MainPoll(th)) =>
             event_q' = Append(event_q, "RESET")
       /\ \A o \in OvIds : (OvTruncated(o) /\ OvPoll(o)) =>
             event_q' = Append(event_q, "RESET")]_vars

NonEmpty(ls) == SelectSeq(ls, LAMBDA l : l # << >>)

\* C7: once the whole stream is appended and read, the lines that were handed
\* to the parser (the empty ones aside) are the lines one read of the whole
\* stream hands to it, however the stream was cut into reads.
C7_ReassemblyIndependentOfReads ==
    (written = Len(stream) /\ rd_pos = Len(stream)) =>
        NonEmpty(handed) = NonEmpty(ReadStep(stream, 0, << >>).lines)

\* C8: the samples of the primary enter its buffer in the order their lines
\* were read from the file.
C8_AppendedInReadOrder == in_order

TailerStep ==
    \/ \E th \in Threads : MainPoll(th) \/ MainRead(th) \/ MainParse(th)
    \/ \E o \in OvIds : OvPoll(o) \/ OvRead(o) \/ OvParse(o)

\* C9: no step of a tailer thread changes the stream buffer of the primary or
\* of a listed overlay.
C9_ConsumerOnlyWriter ==
    [][TailerStep =>
          /\ main' = main
          /\ \A o \in OvIds : Listed(overlays, o) => ov'[o].buffers = ov[o].buffers]_vars

\* C10: at most one read_loop_main thread is alive at any time (an overlay
\* object gets its one _tail thread when it is made).
C10_AtMostOneTailer == Cardinality({th \in Threads : thr[th].pc # "none"}) <= 1

\* C11: a read_loop_main thread that was alive when stop was requested does
\* not pass the test at the head of its loop again: it starts no iteration
\* after the one in progress, whatever is done after the stop.
C11_StopTerminatesTailer ==
    [][\A th \in Threads :
          (th \in stopping /\ thr[th].pc = "poll") => thr'[th].pc # "read"]_vars

\* C12: Start without a chosen main log shows the "No file" warning, starts
\* no thread and leaves the running flag, the buffer, the offset, the carry,
\* the anchor, the caches and the queue as they are; with a chosen log it
\* resets the primary, sets the running flag and starts one tailer thread.
C12_StartNeedsFile ==
    [][Start =>
          IF file_path = None
          THEN /\ dialog' = "No file"
               /\ UNCHANGED <<running, main, file_pos, carry, main_t_start_abs,
                              last_good_temp, last_good_hum, queue, thr>>
          ELSE /\ running'
               /\ main' = EmptyBuffers /\ file_pos' = 0 /\ carry' = << >>
               /\ main_t_start_abs' = None
               /\ last_good_temp' = NoCache /\ last_good_hum' = NoCache
               /\ \E th \in Threads :
                     /\ thr[th].pc = "none" /\ thr'[th].pc = "poll"
                     /\ \A u \in Threads \ {th} : thr'[u] = thr[u]]_vars

\* C12, its case: Start was pressed with no main log chosen.
C12_Refused == dialog = "No file" /\ file_path = None /\ ~running

\* C13: Stop clears the running flag and leaves the primary's buffer, read
\* offset, carry, anchor, caches and queues as they are (so a second Stop
\* changes nothing).
C13_StopOnlyClearsFlag ==
    [][Stop =>
          /\ ~running'
          /\ UNCHANGED <<file_path, main, file_pos, carry, main_t_start_abs,
                         last_good_temp, last_good_hum, queue, event_q>>]_vars

\* C13, its case: the primary was stopped with samples in its buffer and
\* state in its offset and caches.
C13_StoppedWithData ==
    /\ ~running /\ stopping # {}
    /\ main.T1 # << >> /\ file_pos > 0 /\ last_good_temp[1] # None

\* C14: Reset leaves the primary with an empty buffer, offset 0, an empty
\* carry, no anchor and clear caches, and not running.
C14_ResetClearsAndHalts ==
    [][ResetMain =>
          /\ main' = EmptyBuffers /\ file_pos' = 0 /\ carry' = << >>
          /\ main_t_start_abs' = None
          /\ last_good_temp' = NoCache /\ last_good_hum' = NoCache
          /\ ~running']_vars

AddStep ==
    \E o \in OvIds : AddOverlayLive(o) \/ \E c \in CsvIds : AddOverlayStatic(o, c)

C16_RemoveLeavesOthers ==
    [][/\ \A i \in 1..MAX_OVERLAYS : RemoveOverlay(i) =>
             /\ overlays' = SubSeq(overlays, 1, i - 1) \o SubSeq(overlays, i + 1, Len(overlays))
             /\ ~ov'[overlays[i]].running
             /\ \A u \in OvIds \ {overlays[i]} : ov'[u] = ov[u]
             /\ UNCHANGED <<monitor_vars, thr>>
       /\ ClearOverlays =>
             /\ overlays' = << >>
             /\ \A o \in OvIds : ~ov'[o].running
             /\ UNCHANGED <<monitor_vars, thr>>
       /\ \A o \in OvIds :
             (~ov[o].running /\ ov[o].pc = "poll") => ov'[o].pc # "read"]_vars

\* C16, its case: an overlay was removed while its tailer was in the middle
\* of an iteration, and another overlay with samples is still listed.
C16_RemovedMidPoll ==
    \E o, u \in OvIds :
        /\ ~Listed(overlays, o) /\ ~ov[o].running /\ ov[o].pc \in {"read", "parse"}
        /\ Listed(overlays, u) /\ ov[u].buffers # EmptyBuffers

Rebased(b, a, anchor) ==
    /\ \A i \in 1..Len(b.t1) : b.t1[i] = a.t1[i] - anchor
    /\ \A i \in 1..Len(b.t2) : b.t2[i] = a.t2[i] - anchor

\* C17: every sample in the buffer of the primary or of a live overlay has
\* the relative time: its absolute time minus the source's anchor, the
\* absolute time of the first sample accepted since the source's last start,
\* reset or truncation.
C17_TimeBase ==
    /\ main_t_start_abs # None => Rebased(main, main_abs, main_t_start_abs[1])
    /\ \A o \in OvIds :
          (ov[o].live /\ ov[o].t_start_abs # None) =>
              Rebased(ov[o].buffers, ov[o].abs_buffers, ov[o].t_start_abs[1])

\* C18: a read that raises in a tailer puts one more event, an error event,
\* on the event queue, and the tailer polls again.
C18_IoErrorSurfaced ==
    [][/\ \A th \in Threads, e \in IOErrors : MainReadError(th, e) =>
             /\ event_q' = Append(event_q, ErrorEvent(e))
             /\ thr'[th].pc = "poll"
       /\ \A o \in OvIds, e \in IOErrors : OvReadError(o, e) =>
             /\ Len(event_q') = Len(event_q) + 1
             /\ ov'[o].pc = "poll"]_vars

\* C19: the file being absent when the primary's tailer takes its size or
\* opens it puts no event on the event queue.
C19_TransientNotSurfaced ==
    [][\A th \in Threads :
          (MainPollAbsent(th) \/ MainReadError(th, "FileNotFoundError"))
          => event_q' = event_q]_vars

\* The line s is malformed, out of range or a step violation against the
\* caches lgt and lgh.
Rejected(s, lgt, lgh) ==
    LET f == LineFields(s) IN
    \/ f = None
    \/ ~valid_ranges(f[1].temp, f[1].hum)
    \/ ~valid_step(lgt[f[1].sid], lgh[f[1].sid], f[1].temp, f[1].hum)

C21_ImportFailureSurfaced ==
    [][\A j \in loaders :
          (LoadStaticCsvWorker(j) /\ ~CsvTable[j.csv].columns) =>
              /\ \/ Len(overlay_load_q') = Len(overlay_load_q) + 1
                 \/ Len(event_q') = Len(event_q) + 1
                 \/ dialog' \notin {"none", dialog}
              /\ \A o \in OvIds : ov'[o].buffers = ov[o].buffers
              /\ UNCHANGED monitor_vars]_vars

Returned(fn) == call.fn = fn /\ ret # None

\* The distances of the recorded times of the call from the query time.
Distances == {Abs(call.xs[j] - call.a) : j \in DOMAIN call.xs}

\* C23: nearest_by_time on an ascending series returns a value whose
\* recorded time is at minimal distance from the query time when that
\* distance is at most the tolerance, and None otherwise, also for an empty
\* series.
C23_NearestWithinTolerance ==
    Returned("nearest_by_time") =>
        IF Distances = {} \/ \A d \in Distances : d > call.b
        THEN ret[1] = None
        ELSE /\ ret[1] # None
             /\ \E j \in DOMAIN call.xs :
                   /\ call.ys[j] = ret[1][1]
                   /\ \A d \in Distances : Abs(call.xs[j] - call.a) <= d

\* C25: the text for a non-negative time has the milliseconds of the time
\* truncated to whole milliseconds, seconds in 0..59 and milliseconds in
\* 0..999.
C25_TimestampTruncates ==
    Returned("sec_to_mmss_mmm") =>
        /\ (ret[1].m * 60 + ret[1].s) * 1000 + ret[1].ms = call.a \div 10
        /\ ret[1].s \in 0..59
        /\ ret[1].ms \in 0..999

\* ceil(n / m)
CeilDiv(n, m) == (n + m - 1) \div m

\* C28: downsample_xy of a sequence longer than the budget returns every
\* N-th point from the first on, N = ceil(length / budget).
C28_StrideIsCeiling ==
    (Returned("downsample_xy") /\ Len(call.xs) > call.a) =>
        ret[1] = <<Slice(call.xs, CeilDiv(Len(call.xs), call.a)),
                   Slice(call.ys, CeilDiv(Len(call.ys), call.a))>>

\* C29: downsample_xy of a sequence at or below the budget returns both
\* sequences as they are, and so does a second application to the result.
C29_IdentityWithinBudget ==
    (Returned("downsample_xy") /\ Len(call.xs) <= call.a) =>
        /\ ret[1] = <<call.xs, call.ys>>
        /\ downsample_xy(ret[1][1], ret[1][2], call.a) = ret[1]

\* C29, its case: a sequence as long as the budget was downsampled.
C29_AtBudget ==
    Returned("downsample_xy") /\ Len(call.xs) = call.a /\ call.a = MaxBudget

\* C30: when the window holds a sample, the range _fast_ylim returns is at
\* least MIN_YSPAN high.
C30_MinimumSpan ==
    (Returned("_fast_ylim") /\ Window(call.xs, call.ys, call.a, call.b) # << >>) =>
        /\ ret[1] # None
        /\ ret[1][1][2] - ret[1][1][1] >= MIN_YSPAN

\* The outcomes a nearest-time lookup may have: a value recorded at minimal
\* distance from t when that distance is at most the tolerance, else None.
NearestIn(ts, vs, t) ==
    LET D == {Abs(ts[j] - t) : j \in DOMAIN ts} IN
    IF D = {} \/ \A d \in D : d > EXPORT_MAX_DT_SEC THEN {None}
    ELSE {Some(vs[j]) : j \in {k \in DOMAIN ts : \A d \in D : Abs(ts[k] - t) <= d}}

\* C24: the exported file has one row for each distinct time of the two
\* channels of the primary's buffers, in ascending order of time, and each
\* of the four cells of a row is the value its channel recorded nearest to
\* the row's time, or blank when the channel has nothing within the
\* tolerance.
C24_ExportRows ==
    exp_file # None =>
        LET rows == exp_file[1]
            b == exp_main
        IN /\ {rows[i].t : i \in DOMAIN rows} = SeqToSet(b.t1) \cup SeqToSet(b.t2)
           /\ \A i \in 1..(Len(rows) - 1) : rows[i].t < rows[i + 1].t
           /\ \A i \in DOMAIN rows :
                 /\ rows[i].Tin \in NearestIn(b.t1, b.T1, rows[i].t)
                 /\ rows[i].Hin \in NearestIn(b.t1, b.H1, rows[i].t)
                 /\ rows[i].Tout \in NearestIn(b.t2, b.T2, rows[i].t)
                 /\ rows[i].Hout \in NearestIn(b.t2, b.H2, rows[i].t)

\* C26: after the exported file is imported as a static overlay, each
\* channel of the overlay's buffers holds the (time, temperature, humidity)
\* triples of the rows that have that channel's cells, the time being the
\* row's timestamp.
C26_ExportImportRoundTrip ==
    exp_ov # None =>
        LET rows == exp_file[1]
            b == exp_ov[1]
        IN /\ {<<b.t1[i], b.T1[i], b.H1[i]>> : i \in DOMAIN b.t1}
              = {<<parse_ts_mmss_mmm(rows[i].ts), rows[i].Tin[1], rows[i].Hin[1]>> :
                    i \in {k \in DOMAIN rows : rows[k].Tin # None /\ rows[k].Hin # None}}
           /\ {<<b.t2[i], b.T2[i], b.H2[i]>> : i \in DOMAIN b.t2}
              = {<<parse_ts_mmss_mmm(rows[i].ts), rows[i].Tout[1], rows[i].Hout[1]>> :
                    i \in {k \in DOMAIN rows : rows[k].Tout # None /\ rows[k].Hout # None}}

\* C27: the import of a file that has the value columns puts its message on
\* the load queue, and in it every row with values has its timestamp as
\* time, or, when the timestamp does not parse, its row number (counted
\* from 0 over all data rows) times STATIC_DT_SEC.
C27_BadTimestampSynthetic ==
    [][\A j \in loaders :
          (LoadStaticCsvWorker(j) /\ CsvTable[j.csv].columns) =>
              LET rows == CsvTable[j.csv].rows
                  msg == overlay_load_q'[Len(overlay_load_q')]
                  time(k) == IF rows[k + 1].ts = None THEN k * STATIC_DT_SEC
                             ELSE rows[k + 1].ts[1]
              IN /\ Len(overlay_load_q') = Len(overlay_load_q) + 1
                 /\ msg.ov = j.ov
                 /\ \A k \in 0..(Len(rows) - 1) :
                       /\ (rows[k + 1].Tin # None /\ rows[k + 1].Hin # None) =>
                             \E i \in DOMAIN msg.t1 :
                                /\ msg.t1[i] = time(k)
                                /\ msg.T1[i] = rows[k + 1].Tin[1]
                                /\ msg.H1[i] = rows[k + 1].Hin[1]
                       /\ (rows[k + 1].Tout # None /\ rows[k + 1].Hout # None) =>
                             \E i \in DOMAIN msg.t2 :
                                /\ msg.t2[i] = time(k)
                                /\ msg.T2[i] = rows[k + 1].Tout[1]
                                /\ msg.H2[i] = rows[k + 1].Hout[1]]_vars

\* C27, its case: an import is complete whose second row, the first with
\* outlet values, had a timestamp that does not parse.
C27_ImportedWithBadTimestamp ==
    \E o \in OvIds :
        /\ Listed(overlays, o) /\ ~ov[o].live
        /\ CsvTable[1].rows[2].ts = None
        /\ ov[o].buffers.t2 = <<STATIC_DT_SEC>>
        /\ ov[o].buffers.T2 = <<CsvTable[1].rows[2].Tout[1]>>

\* C22: the three lists the Tk thread has copied from a channel of a live
\* overlay's buffers have the same length, and entry i of each is of the
\* same sample.
C22_SnapshotConsistent ==
    sn_copy.pc = "draw" =>
        /\ Len(sn_copy.t1) = Len(sn_copy.T1) /\ Len(sn_copy.T1) = Len(sn_copy.H1)
        /\ \A i \in DOMAIN sn_copy.t1 :
              \E k \in 1..MaxTailPushed :
                 /\ sn_copy.t1[i] = TailSample(k).t
                 /\ sn_copy.T1[i] = TailSample(k).temp
                 /\ sn_copy.H1[i] = TailSample(k).hum

\* Tokens of the main log that are line bodies, in file order.
MainBodies == SelectSeq(files[0], LAMBDA x : x > 0)

NoRepeat(q) == \A i, j \in DOMAIN q : q[i] = q[j] => i = j

\* C31: with one tailer thread and a main log in which no line occurs
\* twice, whatever resets happened while the tailer ran, no sample is in the
\* primary's buffers twice: per channel, no absolute time occurs twice.
C31_ResetLeavesNoDuplicate ==
    (/\ Cardinality({th \in Threads : thr[th].pc # "none"}) <= 1
     /\ NoRepeat(MainBodies))
    => NoRepeat(main_abs.t1) /\ NoRepeat(main_abs.t2)

\* C32: what downsample_xy returns has at most max_points points.
C32_AtMostBudget ==
    Returned("downsample_xy") => Len(ret[1][1]) <= call.a /\ Len(ret[1][2]) <= call.a

\* A reader thread is inside its loop: it passed the loop's test and reads
\* the port or handles a line.
InLoop(r) == readers[r].pc \in {"readline", "check", "write"}

\* C33: at most one reader thread is inside its loop at any time.
C33_AtMostOneReader ==
    Cardinality({r \in Readers : InLoop(r)}) <= 1

\* C34: when the logging flag is off, no log file handle is held and no log
\* file is open.
C34_LoggingOffFileClosed ==
    ~logging => log_file = None /\ open_files = {}

\* C35: when a reader calls write, the log file handle is set and open.
C35_NoWriteOnClosedFile ==
    [][\A r \in Readers, fails \in BOOLEAN :
          ReaderWrite(r, fails) => log_file # None /\ log_file[1] \in open_files]_vars

====
